---- MODULE Spec2Model ----
(***************************************************************************)
(* A model of usnparser/usn.py: the traversal of an NTFS USN journal done  *)
(* by main (findFirstRecord, findNextRecord, the per-record decode) and    *)
(* the primitive decoders convertAttributes, convertFileReference and      *)
(* filetimeToEpoch.                                                        *)
(*                                                                         *)
(* Values wider than 31 bits are kept in pieces, since TLC's integers are  *)
(* 32-bit: a 32-bit mask is the pair <<high 16 bits, low 16 bits>>, a      *)
(* 48-bit entry number is the pair <<high 24 bits, low 24 bits>>, and the  *)
(* 64-bit FILETIME arithmetic is done on base-10000 limbs.                 *)
(***************************************************************************)
EXTENDS Integers, Sequences, FiniteSets, TLC

VARIABLES
    stream,       \* the journal file: lead zero bytes followed by the bytes of body
    pos,          \* the cursor of the input file object i (infile.tell())
    pc,           \* where main is: first, seekFirst, next, decode, seek, exited,
                  \* struct.error, UnicodeDecodeError; call/done for one decoder call
    firstRecord,  \* the value findFirstRecord returned
    nextRecord,   \* main's local nextRecord
    scanFrom,     \* the cursor at entry to the current findNextRecord call
    out,          \* the records written to the output file, in order
    fn,           \* the primitive decoder a harness calls ("none" in the traversal)
    arg,          \* its argument
    ret           \* its return value

vars == <<stream, pos, pc, firstRecord, nextRecord, scanFrom, out, fn, arg, ret>>

Min(a, b) == IF a < b THEN a ELSE b

Max(a, b) == IF a > b THEN a ELSE b

MinOf(S) == CHOOSE x \in S : \A y \in S : x <= y

Zeros(n) == [i \in 1..n |-> 0]

Prefix(s, n) == SubSeq(s, 1, Min(n, Len(s)))

(***************************************************************************)
(* Program constants.                                                      *)
(***************************************************************************)
ChunkSize == 65536

LenField == 4

HeaderBody == 56

(***************************************************************************)
(* Little-endian integers (struct formats <H, <I, <h) and 32-bit masks.    *)
(***************************************************************************)
U16(b, i) == b[i] + 256 * b[i + 1]

U32(b) == b[1] + 256 * b[2] + 65536 * b[3] + 16777216 * b[4]

Mask32(b, i) == <<U16(b, i + 2), U16(b, i)>>

RECURSIVE And16(_, _)
And16(a, b) ==
    IF a = 0 \/ b = 0 THEN 0
    ELSE (a % 2) * (b % 2) + 2 * And16(a \div 2, b \div 2)

BitAnd(x, y) == <<And16(x[1], y[1]), And16(x[2], y[2])>>

Truthy(x) == x # <<0, 0>>

(***************************************************************************)
(* The flag tables, in declaration order: <<key, name>>, the key 0xHHHHLLLL *)
(* written <<0xHHHH, 0xLLLL>> in decimal.                                   *)
(***************************************************************************)
reasons ==
    << <<<<0, 1>>, "DATA_OVERWRITE">>,
       <<<<0, 2>>, "DATA_EXTEND">>,
       <<<<0, 4>>, "DATA_TRUNCATION">>,
       <<<<0, 16>>, "NAMED_DATA_OVERWRITE">>,
       <<<<0, 32>>, "NAMED_DATA_EXTEND">>,
       <<<<0, 64>>, "NAMED_DATA_TRUNCATION">>,
       <<<<0, 256>>, "FILE_CREATE">>,
       <<<<0, 512>>, "FILE_DELETE">>,
       <<<<0, 1024>>, "EA_CHANGE">>,
       <<<<0, 2048>>, "SECURITY_CHANGE">>,
       <<<<0, 4096>>, "RENAME_OLD_NAME">>,
       <<<<0, 8192>>, "RENAME_NEW_NAME">>,
       <<<<0, 16384>>, "INDEXABLE_CHANGE">>,
       <<<<0, 32768>>, "BASIC_INFO_CHANGE">>,
       <<<<1, 0>>, "HARD_LINK_CHANGE">>,
       <<<<2, 0>>, "COMPRESSION_CHANGE">>,
       <<<<4, 0>>, "ENCRYPTION_CHANGE">>,
       <<<<8, 0>>, "OBJECT_ID_CHANGE">>,
       <<<<16, 0>>, "REPARSE_POINT_CHANGE">>,
       <<<<32, 0>>, "STREAM_CHANGE">>,
       <<<<128, 0>>, "INTEGRITY_CHANGE">>,
       <<<<64, 0>>, "TRANSACTED_CHANGE">>,
       <<<<32768, 0>>, "CLOSE">> >>

attributes ==
    << <<<<0, 1>>, "READONLY">>,
       <<<<0, 2>>, "HIDDEN">>,
       <<<<0, 4>>, "SYSTEM">>,
       <<<<0, 16>>, "DIRECTORY">>,
       <<<<0, 32>>, "ARCHIVE">>,
       <<<<0, 64>>, "DEVICE">>,
       <<<<0, 128>>, "NORMAL">>,
       <<<<0, 256>>, "TEMPORARY">>,
       <<<<0, 512>>, "SPARSE_FILE">>,
       <<<<0, 1024>>, "REPARSE_POINT">>,
       <<<<0, 2048>>, "COMPRESSED">>,
       <<<<0, 4096>>, "OFFLINE">>,
       <<<<0, 8192>>, "NOT_CONTENT_INDEXED">>,
       <<<<0, 16384>>, "ENCRYPTED">>,
       <<<<0, 32768>>, "INTEGRITY_STREAM">>,
       <<<<1, 0>>, "VIRTUAL">>,
       <<<<2, 0>>, "NO_SCRUB_DATA">> >>

sourceInfo ==
    << <<<<0, 1>>, "DATA_MANAGEMENT">>,
       <<<<0, 2>>, "AUXILIARY_DATA">>,
       <<<<0, 4>>, "REPLICATION_MANAGEMENT">>,
       <<<<0, 8>>, "CLIENT_REPLICATION_MANAGEMENT">> >>

(***************************************************************************)
(* convertAttributes: the names of the entries whose key ANDs with data,   *)
(* in the table's order, joined by single spaces.  The joined string is    *)
(* the sequence of its tokens, names and " " separators.                   *)
(***************************************************************************)
KeyMatchesExactly(key, data) == key = data

KeySelected(key, data) == Truthy(BitAnd(key, data))

attributeList(attributeType, data) ==
    LET hit == SelectSeq(attributeType, LAMBDA e : KeySelected(e[1], data))
    IN  [i \in 1..Len(hit) |-> hit[i][2]]

RECURSIVE Join(_)
Join(names) ==
    IF Len(names) = 0 THEN <<>>
    ELSE IF Len(names) = 1 THEN names
    ELSE <<names[1], " ">> \o Join(Tail(names))

convertAttributes(attributeType, data) == Join(attributeList(attributeType, data))

(***************************************************************************)
(* The input file.  Its bytes are stream.lead zero bytes followed by       *)
(* stream.body; offsets are 0-based as in Python.                          *)
(***************************************************************************)
journalSize == stream.lead + Len(stream.body)

ByteAt(i) == IF i < stream.lead THEN 0 ELSE stream.body[i - stream.lead + 1]

\* How many bytes infile.read(n) returns with the cursor at p; the cursor
\* advances by as many (a cursor beyond the end reads nothing and stays).
Avail(p, n) == IF p >= journalSize THEN 0 ELSE Min(n, journalSize - p)

Read(p, n) == [k \in 1..Avail(p, n) |-> ByteAt(p + k - 1)]

\* len(infile.read(n).lstrip(b'\x00')) with the cursor at p: the bytes of the
\* chunk from its first non-zero byte on.  Only bytes of body can be non-zero.
StrippedLen(p, n) ==
    LET end == p + Avail(p, n)
        nz  == {i \in Max(p, stream.lead)..(end - 1) : ByteAt(i) # 0}
    IN  IF nz = {} THEN 0 ELSE end - MinOf(nz)

(***************************************************************************)
(* findFirstRecord: one iteration of its loop.                             *)
(***************************************************************************)
ChunkRelativeOffset(tell, chunkLen, dataLen) == chunkLen - dataLen

FirstRecordOffset(tell, chunkLen, dataLen) == tell - dataLen

FindFirstRecord ==
    /\ pc = "first"
    /\ LET chunkLen == Avail(pos, ChunkSize)
           dataLen  == StrippedLen(pos, ChunkSize)
           tell     == pos + chunkLen
       IN  /\ pos' = tell
           /\ IF dataLen > 0
              THEN /\ firstRecord' = FirstRecordOffset(tell, chunkLen, dataLen)
                   /\ pc' = "seekFirst"
              ELSE UNCHANGED <<firstRecord, pc>>
    /\ UNCHANGED <<stream, nextRecord, scanFrom, out, fn, arg, ret>>

\* i.seek(findFirstRecord(i)); the loop then calls findNextRecord.
SeekFirst ==
    /\ pc = "seekFirst"
    /\ pos' = firstRecord
    /\ scanFrom' = firstRecord
    /\ pc' = "next"
    /\ UNCHANGED <<stream, firstRecord, nextRecord, out, fn, arg, ret>>

(***************************************************************************)
(* findNextRecord: one iteration of its loop.  A read of fewer than four   *)
(* bytes makes struct.unpack_from raise struct.error.                      *)
(***************************************************************************)
NoRewind(tell) == tell

Rewind(tell) == tell - LenField

BeyondJournal(tell) == tell > journalSize

EndOfJournal(tell) == tell >= journalSize

FindNextRecord ==
    /\ pc = "next"
    /\ LET buf  == Read(pos, LenField)
           tell == pos + Len(buf)
       IN  IF Len(buf) < LenField
           THEN /\ pos' = tell
                /\ pc' = IF EndOfJournal(tell) THEN "exited" ELSE "next"
                /\ UNCHANGED nextRecord
           ELSE IF U32(buf) # 0
           THEN /\ pos' = Rewind(tell)
                /\ nextRecord' = Rewind(tell) + U32(buf)
                /\ pc' = "decode"
           ELSE /\ pos' = tell
                /\ UNCHANGED <<nextRecord, pc>>
    /\ UNCHANGED <<stream, firstRecord, scanFrom, out, fn, arg, ret>>

(***************************************************************************)
(* filenameHandler.  str.decode('utf16') of an odd number of bytes raises  *)
(* UnicodeDecodeError, which filenameHandler does not catch; the decoded   *)
(* string is the sequence of its 16-bit code units (the journals drawn     *)
(* hold no byte above 0x7F, so no byte-order mark and no surrogate).       *)
(***************************************************************************)
Utf16Decode(buf) ==
    IF Len(buf) % 2 = 1
    THEN [raised |-> "UnicodeDecodeError", value |-> <<>>]
    ELSE [raised |-> "none",
          value  |-> [k \in 1..(Len(buf) \div 2) |-> U16(buf, 2 * k - 1)]]

DecodeWhatWasRead(buf, filenameLength) == Utf16Decode(buf)

filenameHandler(buf, filenameLength) ==
    IF Len(buf) < filenameLength
    THEN [raised |-> "none", value |-> <<>>]
    ELSE Utf16Decode(buf)

(***************************************************************************)
(* The body of main's loop after findNextRecord returned: the two reads,   *)
(* parseUsn and the write.  Of the formatted line the record keeps the     *)
(* filename and the two expanded masks (the timestamp's text is not        *)
(* modelled), with the offset it was decoded at, its declared              *)
(* filenameLength and the nextRecord computed for it.                      *)
(***************************************************************************)
DecodeRecord ==
    /\ pc = "decode"
    /\ LET lenBuf == Read(pos, LenField)
           p1     == pos + Len(lenBuf)
           hdr    == Read(p1, HeaderBody)
           p2     == p1 + Len(hdr)
       IN  IF Len(lenBuf) < LenField \/ Len(hdr) < HeaderBody
           THEN /\ pc' = "struct.error"
                /\ pos' = p2
                /\ UNCHANGED out
           ELSE LET filenameLength == U16(hdr, 53)
                    nameBuf == Read(p2, filenameLength)
                    name    == filenameHandler(nameBuf, filenameLength)
                IN  /\ pos' = p2 + Len(nameBuf)
                    /\ IF name.raised # "none"
                       THEN /\ pc' = name.raised
                            /\ UNCHANGED out
                       ELSE /\ pc' = "seek"
                            /\ out' = Append(out,
                                 [offset         |-> pos,
                                  filename       |-> name.value,
                                  filenameLength |-> filenameLength,
                                  fileAttributes |-> convertAttributes(attributes, Mask32(hdr, 49)),
                                  reason         |-> convertAttributes(reasons, Mask32(hdr, 37)),
                                  nextRecord     |-> nextRecord])
    /\ UNCHANGED <<stream, firstRecord, nextRecord, scanFrom, fn, arg, ret>>

\* i.seek(nextRecord); the loop then calls findNextRecord again.
SeekNext ==
    /\ pc = "seek"
    /\ pos' = nextRecord
    /\ scanFrom' = nextRecord
    /\ pc' = "next"
    /\ UNCHANGED <<stream, firstRecord, nextRecord, out, fn, arg, ret>>

(***************************************************************************)
(* The journals drawn.                                                     *)
(***************************************************************************)
MaxPad == 1

MaxGap == 8

MaxChunks == 2

MaxZeroLen == 24

U16LE(n) == <<n % 256, n \div 256>>

U32LE(n) == <<n % 256, (n \div 256) % 256, (n \div 65536) % 256, n \div 16777216>>

\* The 56 bytes after the length field: version 2.0, two file references, usn,
\* timestamp, reason FILE_CREATE (0x100), sourceInfo, securityId,
\* fileAttributes ARCHIVE, filenameLength, filenameOffset 60.
HeaderBytes(filenameLength) ==
    <<2, 0, 0, 0>>
    \o <<42, 0, 0, 0, 0, 0, 1, 0>> \o <<5, 0, 0, 0, 0, 0, 5, 0>>
    \o <<0, 16, 0, 0, 0, 0, 0, 0>> \o <<0, 112, 21, 105, 54, 64, 85, 1>>
    \o <<0, 1, 0, 0>> \o <<0, 0, 0, 0>> \o <<0, 0, 0, 0>> \o <<32, 0, 0, 0>>
    \o U16LE(filenameLength) \o <<60, 0>>

\* UTF-16LE "aaaa...": n bytes of it.
NameBytes(n) == [i \in 1..n |-> IF i % 2 = 1 THEN 97 ELSE 0]

\* A record declaring recordLength and filenameLength, zero-padded to recordLength.
RecordBytes(recordLength, filenameLength) ==
    U32LE(recordLength) \o HeaderBytes(filenameLength) \o NameBytes(filenameLength)
    \o Zeros(Max(0, recordLength - LenField - HeaderBody - filenameLength))

\* <<recordLength, filenameLength>>: well-formed records, a record whose
\* length field is too small, and one with an odd filenameLength.
RecordKinds == {<<64, 4>>, <<72, 10>>, <<60, 0>>, <<80, 20>>, <<4, 4>>, <<72, 5>>}

SecondKinds == {<<64, 4>>, <<80, 20>>}

Journals ==
    {RecordBytes(a[1], a[2]) \o Zeros(g) \o RecordBytes(b[1], b[2]) :
        a \in RecordKinds, g \in 0..MaxGap, b \in SecondKinds}

\* Every truncation of every journal, the empty file included.
Bodies == UNION {{Prefix(j, n) : n \in 0..Len(j)} : j \in Journals}

LongLeads == {c * ChunkSize + d : c \in 1..MaxChunks, d \in {-1, 0, 1}}

Streams ==
    {[lead |-> n, body |-> b] : n \in 0..MaxPad, b \in Bodies}
    \cup {[lead |-> n, body |-> Prefix(RecordBytes(64, 4), k)] :
            n \in LongLeads, k \in {0, 1, 30, 64}}

Init ==
    /\ stream \in Streams
    /\ pos = 0
    /\ pc = "first"
    /\ firstRecord = 0
    /\ nextRecord = 0
    /\ scanFrom = 0
    /\ out = <<>>
    /\ fn = "none"
    /\ arg = <<>>
    /\ ret = <<>>

Next == FindFirstRecord \/ SeekFirst \/ FindNextRecord \/ DecodeRecord \/ SeekNext

Spec == Init /\ [][Next]_vars

\* main is a sequential program: it takes its next step whenever it has one.
FairSpec == Spec /\ WF_vars(Next)

(***************************************************************************)
(* findNextRecord called on its own, with the cursor anywhere in the file: *)
(* journals of zero bytes only, and journals holding one record.           *)
(***************************************************************************)
ScanStreams ==
    {[lead |-> n, body |-> <<>>] : n \in 0..MaxZeroLen}
    \cup {[lead |-> n, body |-> RecordBytes(64, 4) \o Zeros(g)] :
            n \in 0..MaxPad, g \in 0..MaxGap}

ScanInit ==
    /\ stream \in ScanStreams
    /\ pos \in 0..journalSize
    /\ scanFrom = pos
    /\ pc = "next"
    /\ firstRecord = 0
    /\ nextRecord = 0
    /\ out = <<>>
    /\ fn = "none"
    /\ arg = <<>>
    /\ ret = <<>>

ScanNext == FindNextRecord \/ DecodeRecord \/ SeekNext

ScanSpec == ScanInit /\ [][ScanNext]_vars /\ WF_vars(ScanNext)

(***************************************************************************)
(* Properties of the traversal.                                            *)
(***************************************************************************)
Terminated == pc \in {"exited", "struct.error", "UnicodeDecodeError"}

\* The 4-byte little-endian word at offset q (q + 4 <= journalSize).
WordAt(q) == U32(Read(q, LenField))

HasWordAt(q) == q + LenField <= journalSize

AllZero == \A i \in 1..Len(stream.body) : stream.body[i] = 0

\* C2: at the end of the journal findNextRecord hands control back to its
\* caller: the process is never terminated from inside findNextRecord.
C2_EndOfJournalReturnsToCaller == pc # "exited"

\* C3: for every finite journal, the empty one and the all-zero ones included,
\* main's traversal eventually terminates.  (At the end of a file with no
\* non-zero byte, an iteration of findFirstRecord's loop reads b'' and leaves
\* every variable as it was: the program runs on without changing state.)
C3_TraversalTerminates == <>Terminated

\* C4: a truncated record never aborts the traversal: no struct.error escapes
\* the per-record step.
C4_TruncationNeverAborts == pc # "struct.error"

\* A record decoded with fewer bytes left after its 60-byte header than its
\* filenameLength declares.
TruncatedName(r) == r.offset + LenField + HeaderBody + r.filenameLength > journalSize

\* No non-zero length field at a 4-byte stride from offset n on.
NoFurtherData(n) ==
    \A q \in n..(journalSize - LenField) : (q - n) % 4 = 0 => WordAt(q) = 0

C5_LastTruncated ==
    /\ out # <<>>
    /\ TruncatedName(out[Len(out)])
    /\ NoFurtherData(out[Len(out)].nextRecord)

\* C5: a record whose declared filename runs past the end of the file is
\* decoded with the empty filename and raises nothing, and, when no further
\* data follows, no more record is emitted: after the seek, findNextRecord
\* only reads on to the end of the journal.
C5_TruncatedFilename ==
    \A i \in 1..Len(out) :
        TruncatedName(out[i]) =>
            /\ out[i].filename = <<>>
            /\ NoFurtherData(out[i].nextRecord) =>
                   /\ i = Len(out)
                   /\ pc \in {"seek", "next", "exited"}
                   /\ pc = "exited" => pos >= journalSize

C5_Witness ==
    /\ C5_LastTruncated
    /\ out[Len(out)].filenameLength = 20
    /\ journalSize - (out[Len(out)].offset + LenField + HeaderBody) = 6
    /\ pc = "exited"

\* C8: for a file of N zero bytes followed by a record whose first byte is
\* non-zero, findFirstRecord returns N.
C8_FirstRecordIsN ==
    (pc = "seekFirst" /\ stream.body # <<>> /\ stream.body[1] # 0)
        => firstRecord = stream.lead

C8_Witness ==
    /\ pc = "seekFirst"
    /\ stream.lead >= 2 * ChunkSize
    /\ stream.body # <<>> /\ stream.body[1] # 0
    /\ firstRecord = stream.lead

C9_CursorInFile == AllZero => pos <= journalSize

\* C9: on a journal of zero bytes only, findNextRecord started anywhere in the
\* file ends the journal, and the cursor never goes beyond the file's length.
C9_ZeroJournalEnds == [](C9_CursorInFile) /\ (AllZero ~> pc = "exited")

C9_Witness == AllZero /\ journalSize >= 9 /\ scanFrom = 1 /\ pc = "exited" /\ pos = journalSize

\* C10: when findNextRecord returns, the cursor is at the first non-zero
\* 4-byte word at a 4-byte stride from where the call started (unmoved when the
\* word there is non-zero), the value returned is that offset plus the word, and
\* the offsets at which records are decoded increase strictly.
C10_NextRecord ==
    /\ pc = "decode" =>
          /\ pos >= scanFrom /\ (pos - scanFrom) % 4 = 0
          /\ \A q \in scanFrom..(pos - 1) : (q - scanFrom) % 4 = 0 => WordAt(q) = 0
          /\ HasWordAt(pos) /\ WordAt(pos) # 0
          /\ nextRecord = pos + WordAt(pos)
          /\ (HasWordAt(scanFrom) /\ WordAt(scanFrom) # 0) => pos = scanFrom
          /\ out # <<>> => out[Len(out)].offset < pos
    /\ \A i \in 1..(Len(out) - 1) : out[i].offset < out[i + 1].offset

C10_Witness ==
    /\ pc = "decode"
    /\ pos >= scanFrom + 2 * LenField
    /\ Len(out) = 1

(***************************************************************************)
(* convertAttributes called on its own: every table, masks that are the OR *)
(* of any of a few bits (0x8 is in no table but sourceInfo).               *)
(***************************************************************************)
Idle == [lead |-> 0, body |-> <<>>]

Table(name) ==
    CASE name = "reasons" -> reasons
      [] name = "attributes" -> attributes
      [] name = "sourceInfo" -> sourceInfo

SampleBits == {<<0, 1>>, <<0, 2>>, <<0, 8>>, <<0, 256>>, <<64, 0>>, <<128, 0>>, <<32768, 0>>}

RECURSIVE OrAll(_)
OrAll(S) ==
    IF S = {} THEN <<0, 0>>
    ELSE LET b == CHOOSE x \in S : TRUE
             r == OrAll(S \ {b})
         IN  <<r[1] + b[1], r[2] + b[2]>>

Masks == {OrAll(S) : S \in SUBSET SampleBits}

AttrInit ==
    /\ stream = Idle /\ pos = 0 /\ firstRecord = 0 /\ nextRecord = 0
    /\ scanFrom = 0 /\ out = <<>>
    /\ pc = "call"
    /\ fn = "convertAttributes"
    /\ arg \in {"reasons", "attributes", "sourceInfo"} \X Masks
    /\ ret = <<>>

CallConvertAttributes ==
    /\ pc = "call" /\ fn = "convertAttributes"
    /\ ret' = convertAttributes(Table(arg[1]), arg[2])
    /\ pc' = "done"
    /\ UNCHANGED <<stream, pos, firstRecord, nextRecord, scanFrom, out, fn, arg>>

AttrSpec == AttrInit /\ [][CallConvertAttributes]_vars

\* Whether the single bit of key is set in mask m.
HasBit(m, key) ==
    IF key[1] # 0 THEN (m[1] \div key[1]) % 2 = 1 ELSE (m[2] \div key[2]) % 2 = 1

IndexIn(T, name) == CHOOSE i \in 1..Len(T) : T[i][2] = name

\* C6: convertAttributes(T, m) is exactly the names of the entries of T whose
\* bit is set in m, in T's declaration order, none repeated and none omitted.
C6_ExactFlagsInTableOrder ==
    (pc = "done" /\ fn = "convertAttributes") =>
        LET T     == Table(arg[1])
            m     == arg[2]
            names == SelectSeq(ret, LAMBDA t : t # " ")
        IN  /\ ret = Join(names)
            /\ \A i \in 1..Len(T) :
                   HasBit(m, T[i][1]) <=> \E j \in 1..Len(names) : names[j] = T[i][2]
            /\ \A j \in 1..Len(names) : \E i \in 1..Len(T) : names[j] = T[i][2]
            /\ \A j, k \in 1..Len(names) :
                   j < k => IndexIn(T, names[j]) < IndexIn(T, names[k])

C6_Witness ==
    /\ pc = "done" /\ fn = "convertAttributes"
    /\ arg = <<"reasons", <<192, 1>>>>
    /\ ret = <<"DATA_OVERWRITE", " ", "INTEGRITY_CHANGE", " ", "TRANSACTED_CHANGE">>

(***************************************************************************)
(* convertFileReference.  The 64-bit argument is kept as the eight bytes   *)
(* struct.pack("<Q", buf) gives, least significant first.  format(i, 'x')  *)
(* writes a byte without a leading zero; int(byteString, 16) is returned   *)
(* as <<its bits 47..24, its bits 23..0>>.                                 *)
(***************************************************************************)
FormatHex(i) == IF i < 16 THEN <<i>> ELSE <<i \div 16, i % 16>>

RECURSIVE HexValue(_)
HexValue(digits) ==
    IF digits = <<>> THEN 0
    ELSE 16 * HexValue(SubSeq(digits, 1, Len(digits) - 1)) + digits[Len(digits)]

IntBase16(digits) ==
    LET n == Len(digits)
    IN  <<HexValue(SubSeq(digits, 1, n - 6)), HexValue(SubSeq(digits, Max(1, n - 5), n))>>

S16(lo, hi) == LET u == lo + 256 * hi IN IF u >= 32768 THEN u - 65536 ELSE u

convertFileReference(b) ==
    LET seq        == S16(b[7], b[8])
        byteString == FormatHex(b[6]) \o FormatHex(b[5]) \o FormatHex(b[4])
                      \o FormatHex(b[3]) \o FormatHex(b[2]) \o FormatHex(b[1])
    IN  [seq |-> seq, entry |-> IntBase16(byteString)]

LowBytes == {0, 10, 171}

HighBytes == {0, 1, 128, 255}

RefInit ==
    /\ stream = Idle /\ pos = 0 /\ firstRecord = 0 /\ nextRecord = 0
    /\ scanFrom = 0 /\ out = <<>>
    /\ pc = "call"
    /\ fn = "convertFileReference"
    /\ arg \in {l \o h : l \in [1..6 -> LowBytes], h \in [1..2 -> HighBytes]}
    /\ ret = <<>>

CallConvertFileReference ==
    /\ pc = "call" /\ fn = "convertFileReference"
    /\ ret' = convertFileReference(arg)
    /\ pc' = "done"
    /\ UNCHANGED <<stream, pos, firstRecord, nextRecord, scanFrom, out, fn, arg>>

RefSpec == RefInit /\ [][CallConvertFileReference]_vars

\* C1: convertFileReference(v) returns the entry number v & 0xFFFFFFFFFFFF and
\* a sequence number whose unsigned 16-bit pattern is v >> 48.
C1_FileReferenceRoundTrip ==
    (pc = "done" /\ fn = "convertFileReference") =>
        /\ ret.entry = <<arg[4] + 256 * arg[5] + 65536 * arg[6],
                         arg[1] + 256 * arg[2] + 65536 * arg[3]>>
        /\ ret.seq % 65536 = arg[7] + 256 * arg[8]

(***************************************************************************)
(* filetimeToEpoch: int(filetime / 10000 - 11644473600000).                *)
(*                                                                         *)
(* A natural number is five base-10000 limbs, least significant first.     *)
(* A float is [neg, ip, num, den], the number +-(ip + num/den) with        *)
(* 0 <= num < den.  Python's / on integers gives the double nearest the    *)
(* exact quotient, the subtraction the double nearest the exact            *)
(* difference, and int() drops the fraction (towards zero).  A double      *)
(* with integer part in [2^e, 2^(e+1)) has 52 - e fraction bits.           *)
(***************************************************************************)
LimbBase == 10000

RECURSIVE BigCmpFrom(_, _, _)
BigCmpFrom(a, b, i) ==
    IF i = 0 THEN 0
    ELSE IF a[i] > b[i] THEN 1
    ELSE IF a[i] < b[i] THEN -1
    ELSE BigCmpFrom(a, b, i - 1)

BigCmp(a, b) == BigCmpFrom(a, b, 5)

RECURSIVE BigAddFrom(_, _, _, _)
BigAddFrom(a, b, i, carry) ==
    IF i > 5 THEN <<>>
    ELSE LET t == a[i] + b[i] + carry
         IN  <<t % LimbBase>> \o BigAddFrom(a, b, i + 1, t \div LimbBase)

BigAdd(a, b) == BigAddFrom(a, b, 1, 0)

RECURSIVE BigSubFrom(_, _, _, _)
BigSubFrom(a, b, i, borrow) ==
    IF i > 5 THEN <<>>
    ELSE LET t == a[i] - b[i] - borrow
         IN  IF t < 0 THEN <<t + LimbBase>> \o BigSubFrom(a, b, i + 1, 1)
             ELSE <<t>> \o BigSubFrom(a, b, i + 1, 0)

\* a - b for a >= b.
BigSub(a, b) == BigSubFrom(a, b, 1, 0)

BigZero == <<0, 0, 0, 0, 0>>

BigOne == <<1, 0, 0, 0, 0>>

RECURSIVE BigTimesFrom(_, _, _, _)
BigTimesFrom(a, m, i, carry) ==
    IF i > 5 THEN <<>>
    ELSE LET t == a[i] * m + carry
         IN  <<t % LimbBase>> \o BigTimesFrom(a, m, i + 1, t \div LimbBase)

\* a * m for m <= 65536.
BigTimes(a, m) == BigTimesFrom(a, m, 1, 0)

RECURSIVE BigPow2(_)
BigPow2(e) ==
    IF e = 0 THEN BigOne
    ELSE IF e >= 16 THEN BigTimes(BigPow2(e - 16), 65536)
    ELSE IF e >= 4 THEN BigTimes(BigPow2(e - 4), 16)
    ELSE BigTimes(BigPow2(e - 1), 2)

RECURSIVE Pow2(_)
Pow2(e) == IF e = 0 THEN 1 ELSE 2 * Pow2(e - 1)

\* The fraction bits of a double whose integer part is ip >= 1.
FracBits(ip) == 52 - (CHOOSE e \in 0..66 : BigCmp(BigPow2(e), ip) <= 0 /\ BigCmp(BigPow2(e + 1), ip) > 0)

\* num/den rounded to a multiple of 1/unit, half to even: the numerator.
RoundHalfEven(num, den, unit) ==
    LET scaled == num * unit
        fl     == scaled \div den
        rem    == scaled % den
    IN  IF 2 * rem > den \/ (2 * rem = den /\ fl % 2 = 1) THEN fl + 1 ELSE fl

IsPow2(n) == \E k \in 0..17 : n = Pow2(k)

\* The double nearest x.  A value with more than 17 fraction bits to spare
\* (integer part below 2^35) is kept as it is: the doubles around it are less
\* than 2^-17 apart, and the FILETIME values drawn are either below 2^20 * 10000
\* or above 2^35 * 10000, with no rounding boundary of a later step that close.
RoundToDouble(x) ==
    IF x.num = 0 THEN [x EXCEPT !.den = 1]
    ELSE IF x.ip = BigZero \/ FracBits(x.ip) > 17 THEN x
    ELSE LET unit == Pow2(FracBits(x.ip))
         IN  IF IsPow2(x.den) /\ x.den <= unit THEN x
             ELSE LET n == IF IsPow2(x.den)
                           THEN RoundHalfEven(x.num, x.den \div unit, 1)
                           ELSE RoundHalfEven(x.num, x.den, unit)
                  IN  IF n = unit
                      THEN [neg |-> x.neg, ip |-> BigAdd(x.ip, BigOne), num |-> 0, den |-> 1]
                      ELSE [neg |-> x.neg, ip |-> x.ip, num |-> n, den |-> unit]

\* filetime / 10000: dropping the lowest base-10000 limb is the quotient, the
\* limb the remainder.
TrueDivide(filetime) ==
    RoundToDouble([neg |-> FALSE,
                   ip  |-> Tail(filetime) \o <<0>>,
                   num |-> filetime[1],
                   den |-> LimbBase])

\* x - c for a float x >= 0 and an integer c.
FloatMinus(x, c) ==
    RoundToDouble(
        IF BigCmp(x.ip, c) >= 0
        THEN [neg |-> FALSE, ip |-> BigSub(x.ip, c), num |-> x.num, den |-> x.den]
        ELSE IF x.num = 0
        THEN [neg |-> TRUE, ip |-> BigSub(c, x.ip), num |-> 0, den |-> 1]
        ELSE [neg |-> TRUE, ip |-> BigSub(BigSub(c, x.ip), BigOne),
              num |-> x.den - x.num, den |-> x.den])

\* int(x): the fraction is dropped.
IntTrunc(x) == [neg |-> x.neg /\ x.ip # BigZero, mag |-> x.ip]

\* 11644473600000 = 11 | 6444 | 7360 | 0000 in base 10000.
EpochOffsetMs == <<0, 7360, 6444, 11, 0>>

filetimeToEpoch(filetime) == IntTrunc(FloatMinus(TrueDivide(filetime), EpochOffsetMs))

\* FILETIME values q * 10000 + r: q around 1601 (0), around 1970 (the epoch
\* offset), in 2020, and near the largest 64-bit value; r on both sides of the
\* points where the rounding of a double changes.
Quotients ==
    {<<0, 0, 0, 0>>, <<1, 0, 0, 0>>, <<2, 0, 0, 0>>,
     <<9998, 7359, 6444, 11>>, <<9999, 7359, 6444, 11>>,
     <<0, 7360, 6444, 11>>, <<1, 7360, 6444, 11>>,
     <<0, 1040, 2223, 13>>, <<954, 737, 6744, 1844>>}

Remainders == {0, 1, 9, 10, 11, 2500, 4999, 5000, 5001, 7500, 9374, 9375, 9989, 9990, 9991, 9999}

TimeInit ==
    /\ stream = Idle /\ pos = 0 /\ firstRecord = 0 /\ nextRecord = 0
    /\ scanFrom = 0 /\ out = <<>>
    /\ pc = "call"
    /\ fn = "filetimeToEpoch"
    /\ arg \in {<<r>> \o q : r \in Remainders, q \in Quotients}
    /\ ret = <<>>

CallFiletimeToEpoch ==
    /\ pc = "call" /\ fn = "filetimeToEpoch"
    /\ ret' = filetimeToEpoch(arg)
    /\ pc' = "done"
    /\ UNCHANGED <<stream, pos, firstRecord, nextRecord, scanFrom, out, fn, arg>>

TimeSpec == TimeInit /\ [][CallFiletimeToEpoch]_vars

\* floor(t / 10000) - 11644473600000 in integer arithmetic.
FloorEpoch(filetime) ==
    LET q == Tail(filetime) \o <<0>>
    IN  IF BigCmp(q, EpochOffsetMs) >= 0
        THEN [neg |-> FALSE, mag |-> BigSub(q, EpochOffsetMs)]
        ELSE [neg |-> TRUE, mag |-> BigSub(EpochOffsetMs, q)]

\* C7: filetimeToEpoch(t) is exactly floor(t / 10000) - 11644473600000, also
\* before 1970 and when t is no multiple of 10000.
C7_EpochIsFloor ==
    (pc = "done" /\ fn = "filetimeToEpoch") => ret = FloorEpoch(arg)

====
